---- MODULE Spec2Model ----
(***************************************************************************)
(* Model of the serverless weather pipeline:                               *)
(*   - the async persistence path (services/aggregator_service_async.py,   *)
(*     services/db_service_async.py),                                      *)
(*   - the fetcher Lambda (lambdas/fetcher/handler.py),                    *)
(*   - the daily aggregation Lambda                                        *)
(*     (lambdas/weather_daily_aggregator/handler.py),                      *)
(*   - the async aggregation of one city (utils/weather_utils_async.py).   *)
(* Every entry point is a component with its own position variable; a      *)
(* component whose position is "off" has not been invoked in the scenario. *)
(***************************************************************************)
EXTENDS Integers, Sequences, FiniteSets, TLC

VARIABLES
    weather_aggregates, \* rows of weather.weather_aggregates, in insertion order
    processed_bucket,   \* the objects of the processed bucket: key and JSON body
    city_tasks,         \* per run: the city_tasks argument of process_all_cities
    prun,               \* per run: position of process_all_cities
    pjobs,              \* per run: the process_city_aggregate tasks
    presults,           \* per run: the list process_all_cities returned
    fcfg,               \* fetcher: the environment and secrets the Lambda runs with
    fcities,            \* fetcher: the rows of get_all_cities_with_coordinates
    fpc,                \* fetcher: position of async_handler
    fjobs,              \* fetcher: the process_city_weather tasks
    raw_bucket,         \* keys of the objects stored in the raw bucket
    fresponse,          \* fetcher: the response async_handler returned
    clock,              \* datetime.now(timezone.utc), in seconds
    agg_files,          \* aggregation: the content behind each key of day_files
    agg_pc,             \* aggregation: position of aggregate_city_weather_async
    agg_done,           \* aggregation: the process_file tasks that have finished
    metrics,            \* aggregation: the accumulator lists
    agg_result,         \* aggregation: the summary returned, or the exception raised
    sync_result,        \* aggregation: what the synchronous aggregate_city_weather gave
    hcfg,               \* daily aggregator: the environment and secrets it runs with
    hevent,             \* daily aggregator: the "date" of the event, if any
    raw_files,          \* raw bucket: per city, the date it has blobs for and the blobs
    db_cities,          \* ids of the rows of weather.cities
    hpc,                \* daily aggregator: position of handler
    htarget,            \* daily aggregator: target_date
    hprefixes,          \* daily aggregator: city_prefixes
    hidx,               \* daily aggregator: index of the loop over city_prefixes
    hresults,           \* daily aggregator: results
    hfaults,            \* daily aggregator: the external faults that hit the run
    hraised,            \* daily aggregator: the exception the except clause caught
    hsession,           \* daily aggregator: state of the SQLAlchemy session
    hresponse,          \* daily aggregator: the response returned
    hrun,               \* daily aggregator: the number of the invocation
    services,           \* secrets: the AsyncSecretsManagerService objects constructed
    lru,                \* secrets: the entries of get_secret's lru_cache, oldest first
    remote_calls,       \* secrets: the SecretId of each get_secret_value call made
    secret_log,         \* secrets: each awaited get_secret call and what it gave
    pair_files,         \* concurrent aggregations: per call, the content behind day_files
    pair_pc,            \* concurrent aggregations: per call, its position
    pair_done,          \* concurrent aggregations: per call, the process_file tasks finished
    pair_metrics,       \* concurrent aggregations: per call, its accumulator lists
    pair_result         \* concurrent aggregations: per call, the summary or the exception

persistVars == <<weather_aggregates, processed_bucket, city_tasks, prun, pjobs, presults>>
fetchVars == <<fcfg, fcities, fpc, fjobs, raw_bucket, fresponse, clock>>
aggVars == <<agg_files, agg_pc, agg_done, metrics, agg_result, sync_result>>
syncVars == <<hcfg, hevent, raw_files, db_cities, hpc, htarget, hprefixes, hidx, hresults,
              hfaults, hraised, hsession, hresponse, hrun>>
secretVars == <<services, lru, remote_calls, secret_log>>
pairVars == <<pair_files, pair_pc, pair_done, pair_metrics, pair_result>>
vars == <<persistVars, fetchVars, aggVars, syncVars, secretVars, pairVars>>

\* ------------------------------------------------------------------ bounds
NumRuns == 2
NumCities == 2
MaxDate == 2
MaxFetchCities == 2
MaxClock == 1
MaxFiles == 3
\* Bits of the significand of the floating-point format the model computes in
\* (IEEE 754 round-to-nearest-even, scaled down from the 53 bits of a double).
MantBits == 3

Runs == 1..NumRuns
CityIds == 1..NumCities
Dates == 1..MaxDate

\* ---------------------------------------------------------------- helpers
Range(s) == {s[i] : i \in 1..Len(s)}

RECURSIVE SeqOfSet(_)
\* the elements of a finite set of integers as an ascending sequence
SeqOfSet(S) ==
    IF S = {} THEN <<>>
    ELSE LET m == CHOOSE x \in S : \A y \in S : x <= y
         IN <<m>> \o SeqOfSet(S \ {m})

\* ------------------------------------------------------ summaries (inputs)
\* The aggregate dicts handed to the persistence path; one per (run, city) so
\* that the writer of a row can be told from its fields.
Summary(r, c) == [temp_avg |-> 50 + 5 * (r - 1) + c, readings_count |-> 2 + r]

CityName(c) == <<"A", "B", "C", "D">>[c]

\* --------------------------------------------------- exceptions (by name)
DBErrors == {"OperationalError", "IntegrityError"}

\* ------------------------------------------------------- job result shapes
Pending == [kind |-> "pending"]
Returned(v) == [kind |-> "returned", value |-> v]
Raised(e) == [kind |-> "raised", value |-> [exception |-> e]]

\* Optional values: None, or a present value.
None == <<>>
Some(x) == <<x>>

\* ------------------------------------------------------------------
\* Async persistence path: services/aggregator_service_async.py
\* ------------------------------------------------------------------

\* A task descriptor of city_tasks.
CityTask(r, c, d, files) ==
    [city_id |-> c, city_name |-> CityName(c), target_date |-> d,
     agg |-> Summary(r, c), day_files |-> files]

\* The source-file lists a task may carry.
DayFileLists == {<<>>, <<1>>}

\* An `agg` dict without any key.
EmptyAgg == [k \in {} |-> 0]

\* What a run's tasks carry: a summary and source files, a summary without
\* source files, or source files with an empty `agg`.
TaskInputs == {<<f, e>> \in DayFileLists \X BOOLEAN : ~(f = <<>> /\ e)}

\* The city_tasks lists a run may be given: one target date per run, a
\* non-empty set of cities in listing order.
TaskLists(r) ==
    {[i \in 1..Cardinality(S) |->
        IF x[2] THEN [CityTask(r, SeqOfSet(S)[i], d, x[1]) EXCEPT !.agg = EmptyAgg]
        ELSE CityTask(r, SeqOfSet(S)[i], d, x[1])] :
        S \in (SUBSET CityIds) \ {{}}, d \in Dates, x \in TaskInputs}

NewJob == [pc |-> "get", existing |-> "unset", put |-> "", err |-> "", out |-> Pending]

RowsFor(rows, c, d) ==
    SelectSeq(rows, LAMBDA row : row.city_id = c /\ row.date = d)

\* UniqueConstraint("city_id", "date"): an insert of a second row for the key is
\* rejected by the database.
UniqueViolationOff(rows, c, d) == FALSE

UniqueViolation(rows, c, d) == RowsFor(rows, c, d) # <<>>

\* The metric columns of WeatherAggregate are NOT NULL without a default:
\* WeatherAggregate(city_id, date, **agg) with an empty agg cannot be committed.
NotNullViolation(agg) == DOMAIN agg = {}

\* The key save_processed_payload builds: processed/{city}/{Y}/{M}/{D}/{city}_{ts}.json
ProcessedKey(t) == [prefix |-> "processed", city |-> t.city_name, date |-> t.target_date]

\* except Exception in process_city_aggregate: the error becomes the city's entry.
NoCatchAggregate(t, e) == Raised(e)

CatchAggregate(t, e) == Returned([city |-> t.city_name, error |-> e])

SuccessAggregate(t) ==
    Returned([city |-> t.city_name, date |-> t.target_date,
              processed_file |-> ProcessedKey(t),
              records_used |-> IF "readings_count" \in DOMAIN t.agg
                               THEN t.agg.readings_count ELSE 0])

\* A job that left the try body with exception e.
Failed(j, t, e) == [j EXCEPT !.pc = "done", !.err = e, !.out = CatchAggregate(t, e)]

\* save_processed_payload without its two checks
NoInputCheck(j, t) == [j EXCEPT !.pc = "put"]

\* What process_city_aggregate does, without suspending, once
\* save_weather_aggregate has returned: the two ValueError checks of
\* save_processed_payload, then the await of put_json.
AfterSave(j, t) ==
    IF DOMAIN t.agg = {} \/ t.day_files = <<>>
    THEN Failed(j, t, "ValueError")
    ELSE [j EXCEPT !.pc = "put"]

\* process_all_cities, lines 197-210: one task per city descriptor.
process_all_cities_create(r) ==
    /\ prun[r] = "idle"
    /\ prun' = [prun EXCEPT ![r] = "gathering"]
    /\ pjobs' = [pjobs EXCEPT ![r] = [i \in 1..Len(city_tasks[r]) |-> NewJob]]
    /\ UNCHANGED <<weather_aggregates, processed_bucket, city_tasks, presults, fetchVars, aggVars, syncVars,
                   secretVars, pairVars>>

\* save_weather_aggregate without its test of `existing`
AlwaysInsert(found) == TRUE

\* save_weather_aggregate, line 37: `if not existing`
InsertNeeded(found) == ~found

\* save_weather_aggregate, line 36: the SELECT of get_weather_aggregate returns
\* (or raises); `if not existing` is decided without suspending.
get_weather_aggregate(r, i) ==
    /\ prun[r] = "gathering"
    /\ i \in 1..Len(pjobs[r])
    /\ pjobs[r][i].pc = "get"
    /\ LET t == city_tasks[r][i]
           j == pjobs[r][i]
           found == RowsFor(weather_aggregates, t.city_id, t.target_date) # <<>>
       IN \E ok \in BOOLEAN :
            pjobs' = [pjobs EXCEPT ![r][i] =
                IF ~ok THEN Failed(j, t, "OperationalError")
                ELSE IF InsertNeeded(found)
                THEN [j EXCEPT !.existing = IF found THEN "row" ELSE "none", !.pc = "add"]
                ELSE AfterSave([j EXCEPT !.existing = "row"], t)]
    /\ UNCHANGED <<weather_aggregates, processed_bucket, city_tasks, prun, presults, fetchVars, aggVars, syncVars,
                   secretVars, pairVars>>

\* save_weather_aggregate, lines 38-40: the INSERT of add_weather_aggregate
\* commits, or the database rejects it.
add_weather_aggregate(r, i) ==
    /\ prun[r] = "gathering"
    /\ i \in 1..Len(pjobs[r])
    /\ pjobs[r][i].pc = "add"
    /\ LET t == city_tasks[r][i]
           j == pjobs[r][i]
       IN \E ok \in BOOLEAN :
            IF ~ok
            THEN /\ pjobs' = [pjobs EXCEPT ![r][i] = Failed(j, t, "OperationalError")]
                 /\ UNCHANGED weather_aggregates
            ELSE IF \/ UniqueViolation(weather_aggregates, t.city_id, t.target_date)
                    \/ NotNullViolation(t.agg)
            THEN /\ pjobs' = [pjobs EXCEPT ![r][i] = Failed(j, t, "IntegrityError")]
                 /\ UNCHANGED weather_aggregates
            ELSE /\ weather_aggregates' = Append(weather_aggregates,
                        [city_id |-> t.city_id, date |-> t.target_date, agg |-> t.agg])
                 /\ pjobs' = [pjobs EXCEPT ![r][i] = AfterSave(j, t)]
    /\ UNCHANGED <<processed_bucket, city_tasks, prun, presults, fetchVars, aggVars, syncVars,
                   secretVars, pairVars>>

\* save_processed_payload, lines 108-118, over AsyncS3Service.put_json: the
\* object is stored; or put_object fails with ClientError, which put_json
\* swallows (returns None); or it fails with another exception, which
\* propagates.
PutOutcomes == {"stored", "ClientError", "EndpointConnectionError"}

\* s3.put_object: the object under the key is created or replaced.
PutObject(bucket, key, body) ==
    {o \in bucket : o.key # key} \cup {[key |-> key, body |-> body]}

Keys(bucket) == {o.key : o \in bucket}

\* the payload of a processed blob: the aggregates and metadata.source_files
Payload(agg, day_files) == [aggregates |-> agg, source_files |-> Len(day_files)]

put_json_processed(r, i) ==
    /\ prun[r] = "gathering"
    /\ i \in 1..Len(pjobs[r])
    /\ pjobs[r][i].pc = "put"
    /\ LET t == city_tasks[r][i]
           j == pjobs[r][i]
       IN \E o \in PutOutcomes :
            /\ processed_bucket' = IF o = "stored"
                                   THEN PutObject(processed_bucket, ProcessedKey(t),
                                                  Payload(t.agg, t.day_files))
                                   ELSE processed_bucket
            /\ pjobs' = [pjobs EXCEPT ![r][i] =
                    IF o = "EndpointConnectionError" THEN Failed([j EXCEPT !.put = o], t, o)
                    ELSE [j EXCEPT !.pc = "done", !.put = o, !.out = SuccessAggregate(t)]]
    /\ UNCHANGED <<weather_aggregates, city_tasks, prun, presults, fetchVars, aggVars, syncVars,
                   secretVars, pairVars>>

\* process_all_cities, lines 212-222: gather(return_exceptions=True) resumes
\* once every task is done; exceptions are dropped from the list.
process_all_cities_return(r) ==
    /\ prun[r] = "gathering"
    /\ \A i \in 1..Len(pjobs[r]) : pjobs[r][i].out # Pending
    /\ prun' = [prun EXCEPT ![r] = "returned"]
    /\ presults' = [presults EXCEPT ![r] =
            LET kept == SelectSeq(pjobs[r], LAMBDA j : j.out.kind = "returned")
            IN [k \in 1..Len(kept) |-> kept[k].out.value]]
    /\ UNCHANGED <<weather_aggregates, processed_bucket, city_tasks, pjobs, fetchVars, aggVars, syncVars,
                   secretVars, pairVars>>

StoresEmpty ==
    /\ weather_aggregates = <<>>
    /\ processed_bucket = {}

PersistOff ==
    /\ city_tasks = [r \in Runs |-> <<>>]
    /\ prun = [r \in Runs |-> "off"]
    /\ pjobs = [r \in Runs |-> <<>>]
    /\ presults = [r \in Runs |-> <<>>]

PersistOn ==
    /\ city_tasks \in {f \in [Runs -> UNION {TaskLists(r) : r \in Runs}] :
                          \A r \in Runs : f[r] \in TaskLists(r)}
    /\ prun = [r \in Runs |-> "idle"]
    /\ pjobs = [r \in Runs |-> <<>>]
    /\ presults = [r \in Runs |-> <<>>]

NextPersist ==
    \E r \in Runs :
        \/ process_all_cities_create(r)
        \/ \E i \in 1..NumCities : get_weather_aggregate(r, i)
        \/ \E i \in 1..NumCities : add_weather_aggregate(r, i)
        \/ \E i \in 1..NumCities : put_json_processed(r, i)
        \/ process_all_cities_return(r)

\* ------------------------------------------------------------------
\* Fetcher Lambda: lambdas/fetcher/handler.py
\* ------------------------------------------------------------------

\* What init_services finds: everything set; a required environment variable
\* unset or empty; get_secret raising for a remote error, an empty SecretString,
\* a SecretString that is no JSON or no JSON object; no "openweathermap" key in
\* the API secret, or an empty one; a db_url that is missing or no string; both
\* secret names naming the same secret, so that get_secret is called twice with
\* one name.
ConfigScenarios ==
    {"ok", "env_unset", "env_empty", "secret_error", "secret_empty", "secret_not_json",
     "secret_not_dict", "no_api_key", "empty_api_key", "bad_db_url", "same_secret"}

\* The scenarios in which an environment variable or a secret is missing or
\* invalid.
MissingConfig == ConfigScenarios \ {"ok", "same_secret"}

\* init_services with none of its checks
InitServicesUnchecked(cfg) == ""

\* init_services, lines 35-58, get_env_var (common.py 20-23) and get_secret
\* (secrets_manager_service_async.py 44-64): the exception raised, "" when
\* init_services returns.
InitServicesError(cfg) ==
    CASE cfg \in {"env_unset", "env_empty"} -> "EnvironmentError"
      [] cfg = "secret_error" -> "ClientError"
      [] cfg \in {"secret_empty", "secret_not_dict"} -> "ValueError"
      [] cfg = "secret_not_json" -> "JSONDecodeError"
      [] cfg \in {"no_api_key", "empty_api_key"} -> "ValueError"
      [] cfg = "bad_db_url" -> "ValueError"
      [] cfg = "same_secret" -> "RuntimeError"
      [] OTHER -> ""

CityNames == {"A", "B"}

RECURSIVE SeqsUpTo(_, _)
\* the sequences over S of length at most n
SeqsUpTo(S, n) ==
    IF n = 0 THEN {<<>>}
    ELSE LET shorter == SeqsUpTo(S, n - 1)
         IN shorter \cup {Append(q, x) : q \in shorter, x \in S}

\* stop_after_attempt(3)
MaxAttempts == 3

NewFetchJob ==
    [pc |-> "weather", attempt |-> 1, tries |-> <<>>, key |-> None, put |-> "", err |-> "",
     out |-> Pending]

\* store_weather_in_s3, lines 78-83: raw/{city}/{Y}/{M}/{D}/{city}_{timestamp}.json
RawKey(name, now) == [prefix |-> "raw", city |-> name, timestamp |-> now]

S3Uri(key) == [uri |-> key]

\* except Exception in process_city_weather, lines 113-115.
NoCatchWeather(name, e) == Raised(e)

CatchWeather(name, e) == Returned([city |-> name, error |-> e])

FetchFailed(j, name, e) ==
    [j EXCEPT !.pc = "done", !.err = e, !.out = CatchWeather(name, e)]

Error500(e) == [statusCode |-> 500, body |-> [error |-> e]]

\* async_handler, line 158: init_services returns the services or raises.
init_services ==
    /\ fpc = "start"
    /\ IF InitServicesError(fcfg) = ""
       THEN /\ fpc' = "listing"
            /\ UNCHANGED fresponse
       ELSE /\ fpc' = "failed"
            /\ fresponse' = Error500(InitServicesError(fcfg))
    /\ UNCHANGED <<fcfg, fcities, fjobs, raw_bucket, clock, persistVars, aggVars, syncVars,
                   secretVars, pairVars>>

\* async_handler, lines 160-166: the city rows arrive (or the query raises) and
\* process_all_cities hands one coroutine per city to gather.
get_all_cities_with_coordinates ==
    /\ fpc = "listing"
    /\ \E ok \in BOOLEAN :
        IF ok
        THEN /\ fpc' = "gather"
             /\ fjobs' = [i \in 1..Len(fcities) |-> NewFetchJob]
             /\ UNCHANGED fresponse
        ELSE /\ fpc' = "failed"
             /\ fresponse' = Error500("OperationalError")
             /\ UNCHANGED fjobs
    /\ UNCHANGED <<fcfg, fcities, raw_bucket, clock, persistVars, aggVars, syncVars,
                   secretVars, pairVars>>

\* One attempt of WeatherService.get_weather_by_coordinates under
\* @retry(retry_if_exception_type(aiohttp.ClientError), stop_after_attempt(3),
\* reraise=True). A dict response lets store_weather_in_s3 build the key from
\* the current time and await put_json.
WeatherOutcomes == {"dict", "nondict", "ClientError", "TimeoutError"}

\* a retry predicate that retries on every exception
RetryOnException(o) == o # "dict"

\* retry_if_exception_type(aiohttp.ClientError), line 51
RetryOn(o) == o = "ClientError"

get_weather_by_coordinates(i) ==
    /\ fpc = "gather"
    /\ i \in 1..Len(fjobs)
    /\ fjobs[i].pc = "weather"
    /\ \E o \in WeatherOutcomes :
       LET j == [fjobs[i] EXCEPT !.tries = Append(@, o)]
           name == fcities[i]
           e == IF o = "nondict" THEN "ValueError" ELSE o
       IN fjobs' = [fjobs EXCEPT ![i] =
                IF o = "dict"
                THEN [j EXCEPT !.pc = "put", !.key = Some(RawKey(name, clock))]
                ELSE IF RetryOn(o) /\ j.attempt < MaxAttempts
                THEN [j EXCEPT !.attempt = j.attempt + 1]
                ELSE FetchFailed(j, name, e)]
    /\ UNCHANGED <<fcfg, fcities, fpc, raw_bucket, fresponse, clock, persistVars, aggVars, syncVars,
                   secretVars, pairVars>>

\* store_weather_in_s3, line 85, over AsyncS3Service.put_json, then
\* process_city_weather, line 112.
put_json_raw(i) ==
    /\ fpc = "gather"
    /\ i \in 1..Len(fjobs)
    /\ fjobs[i].pc = "put"
    /\ LET j == fjobs[i]
           name == fcities[i]
           key == j.key[1]
       IN \E o \in PutOutcomes :
            /\ raw_bucket' = IF o = "stored" THEN raw_bucket \cup {key} ELSE raw_bucket
            /\ fjobs' = [fjobs EXCEPT ![i] =
                    CASE o = "stored" ->
                            [j EXCEPT !.pc = "done", !.put = o,
                                      !.out = Returned([city |-> name, s3_path |-> Some(S3Uri(key))])]
                      [] o = "ClientError" ->
                            [j EXCEPT !.pc = "done", !.put = o,
                                      !.out = Returned([city |-> name, s3_path |-> None])]
                      [] OTHER -> FetchFailed([j EXCEPT !.put = o], name, o)]
    /\ UNCHANGED <<fcfg, fcities, fpc, fresponse, clock, persistVars, aggVars, syncVars,
                   secretVars, pairVars>>

\* the results in the reverse of the input order
ReverseResults(jobs) == [i \in 1..Len(jobs) |-> jobs[Len(jobs) + 1 - i].out.value]

\* process_all_cities, line 140: asyncio.gather returns the results in the
\* order of the awaitables it was given.
GatherResults(jobs) == [i \in 1..Len(jobs) |-> jobs[i].out.value]

\* process_all_cities, line 140, and async_handler, lines 168-179:
\* gather(return_exceptions=False) resumes when every coroutine has returned,
\* or as soon as one has raised; the exception then reaches async_handler's
\* except clause.
async_handler_return ==
    /\ fpc = "gather"
    /\ LET raised == {i \in 1..Len(fjobs) : fjobs[i].out.kind = "raised"}
       IN /\ raised # {} \/ \A i \in 1..Len(fjobs) : fjobs[i].out # Pending
          /\ fresponse' =
                IF raised # {}
                THEN Error500(fjobs[CHOOSE i \in raised : TRUE].out.value.exception)
                ELSE [statusCode |-> 200,
                      body |-> GatherResults(fjobs)]
    /\ fpc' = "returned"
    /\ UNCHANGED <<fcfg, fcities, fjobs, raw_bucket, clock, persistVars, aggVars, syncVars,
                   secretVars, pairVars>>

\* Time passes between two suspension points.
Tick ==
    /\ fpc \in {"start", "listing", "gather"}
    /\ clock < MaxClock
    /\ clock' = clock + 1
    /\ UNCHANGED <<fcfg, fcities, fpc, fjobs, raw_bucket, fresponse, persistVars, aggVars, syncVars,
                   secretVars, pairVars>>

NoResponse == [statusCode |-> 0, body |-> <<>>]

FetchOff ==
    /\ fcfg = "ok"
    /\ fcities = <<>>
    /\ fpc = "off"
    /\ fjobs = <<>>
    /\ raw_bucket = {}
    /\ fresponse = NoResponse
    /\ clock = 0

FetchOn ==
    /\ fcfg \in ConfigScenarios
    /\ fcities \in SeqsUpTo(CityNames, MaxFetchCities)
    /\ fpc = "start"
    /\ fjobs = <<>>
    /\ raw_bucket = {}
    /\ fresponse = NoResponse
    /\ clock = 0

NextFetch ==
    \/ init_services
    \/ get_all_cities_with_coordinates
    \/ \E i \in 1..MaxFetchCities : get_weather_by_coordinates(i)
    \/ \E i \in 1..MaxFetchCities : put_json_raw(i)
    \/ async_handler_return
    \/ Tick

\* ------------------------------------------------------------------
\* Floating-point arithmetic of the aggregation (non-negative values)
\* ------------------------------------------------------------------
RECURSIVE BitLen(_)
BitLen(n) == IF n = 0 THEN 0 ELSE 1 + BitLen(n \div 2)

RECURSIVE Pow2(_)
Pow2(k) == IF k = 0 THEN 1 ELSE 2 * Pow2(k - 1)

\* The float nearest to num/den, ties to the even significand.
RoundRat(num, den) ==
    LET fl == num \div den
        s == IF BitLen(fl) > MantBits THEN BitLen(fl) - MantBits ELSE 0
        step == Pow2(s)
        lower == (fl \div step) * step
        rem2 == 2 * (num - lower * den)
    IN IF rem2 < step * den THEN lower
       ELSE IF rem2 > step * den THEN lower + step
       ELSE IF (lower \div step) % 2 = 0 THEN lower ELSE lower + step

\* float + float
FAdd(a, b) == RoundRat(a + b, 1)

RECURSIVE ExactSum(_)
ExactSum(xs) == IF xs = <<>> THEN 0 ELSE Head(xs) + ExactSum(Tail(xs))

RECURSIVE FoldSum(_, _)
FoldSum(acc, xs) == IF xs = <<>> THEN acc ELSE FoldSum(FAdd(acc, Head(xs)), Tail(xs))

\* sum(xs): left to right, rounding after every addition.
sum(xs) == FoldSum(0, xs)

\* statistics.mean(xs): the exact rational sum, divided, rounded once.
mean(xs) == RoundRat(ExactSum(xs), Len(xs))

min(xs) == CHOOSE x \in Range(xs) : \A y \in Range(xs) : x <= y

max(xs) == CHOOSE x \in Range(xs) : \A y \in Range(xs) : x >= y

\* ------------------------------------------------------------------
\* JSON documents and parse_weather: utils/weather_utils_async.py
\* ------------------------------------------------------------------
Num(n) == [t |-> "num", v |-> n]
Null == [t |-> "null"]
Obj(fields) == [t |-> "obj", f |-> fields]
EmptyObj == Obj(<<>>)
\* a JSON string (the documents hold no booleans, which Python counts as ints)
Str == [t |-> "str"]
\* a blob that is no JSON text
NotJson == [t |-> "invalid"]
\* a key whose get_object raises ClientError
NoSuchKey == [t |-> "ClientError"]

\* dict.get(k, default)
Get(o, k, default) == IF k \in DOMAIN o.f THEN o.f[k] ELSE default

\* Python truth value of a decoded JSON value
Falsy(v) == v = Null \/ v = Num(0) \/ v = EmptyObj

ParseError(e) == [ok |-> FALSE, error |-> e]

\* parse_weather, lines 34-53
parse_weather(data) ==
    IF data.t # "obj" THEN ParseError("AttributeError")
    ELSE LET main == Get(data, "main", EmptyObj)
             wind == Get(data, "wind", EmptyObj)
             rain == Get(data, "rain", EmptyObj)
         IN IF main.t # "obj" \/ wind.t # "obj" \/ rain.t # "obj"
            THEN ParseError("AttributeError")
            ELSE [ok |-> TRUE,
                  temp_min |-> Get(main, "temp_min", Null),
                  temp_max |-> Get(main, "temp_max", Null),
                  temp_avg |-> Get(main, "temp", Null),
                  humidity |-> Get(main, "humidity", Null),
                  precipitation |-> LET v == Get(rain, "1h", Num(0))
                                    IN IF Falsy(v) THEN Num(0) ELSE v,
                  wind_speed |-> Get(wind, "speed", Null)]

MetricKeys == {"temp_min", "temp_max", "temp_avg", "humidity", "precipitation", "wind_speed"}

EmptyMetrics == [k \in MetricKeys |-> <<>>]

\* process_file without its try / except: one failing file empties the lists.
DropAllOnError(m, blob) ==
    IF blob \in {NotJson, NoSuchKey} \/ ~parse_weather(blob).ok THEN EmptyMetrics
    ELSE [k \in MetricKeys |->
            IF parse_weather(blob)[k].t = "num"
            THEN Append(m[k], parse_weather(blob)[k].v) ELSE m[k]]

\* process_file, lines 86-96: get_json raises on a missing key, json.loads on
\* a blob that is no JSON, and parse_weather may raise; all are caught and the
\* file contributes nothing.
\* Otherwise every numeric value is appended to its list.
AppendReading(m, blob) ==
    IF blob \in {NotJson, NoSuchKey} THEN m
    ELSE LET w == parse_weather(blob)
         IN IF ~w.ok THEN m
            ELSE [k \in MetricKeys |->
                    IF w[k].t = "num" THEN Append(m[k], w[k].v) ELSE m[k]]

\* the zero-filled record a missing guard would return
ZeroFilled(e) ==
    [ok |-> TRUE, temp_min |-> 0, temp_max |-> 0, temp_avg |-> 0, humidity_avg |-> 0,
     precipitation_sum |-> 0, wind_speed_avg |-> 0, readings_count |-> 0]

\* the exception aggregation raises, by kind
AggError(e) == [ok |-> FALSE, error |-> e]

\* aggregate_city_weather_async, lines 100-111
Summarize(m) ==
    IF m["temp_avg"] = <<>> THEN AggError("NoValidData")
    ELSE IF m["temp_min"] = <<>> \/ m["temp_max"] = <<>> THEN AggError("ValueError")
    ELSE IF m["humidity"] = <<>> \/ m["wind_speed"] = <<>> THEN AggError("StatisticsError")
    ELSE [ok |-> TRUE,
          temp_min |-> min(m["temp_min"]),
          temp_max |-> max(m["temp_max"]),
          temp_avg |-> mean(m["temp_avg"]),
          humidity_avg |-> mean(m["humidity"]),
          precipitation_sum |-> sum(m["precipitation"]),
          wind_speed_avg |-> mean(m["wind_speed"]),
          readings_count |-> Len(m["temp_avg"])]

\* A reading with every metric but rain.
Reading(tmin, tmax, t, h, w) ==
    Obj([main |-> Obj([temp |-> Num(t), temp_min |-> Num(tmin), temp_max |-> Num(tmax),
                       humidity |-> Num(h)]),
         wind |-> Obj([speed |-> Num(w)])])

\* The same with rain["1h"].
RainyReading(tmin, tmax, t, h, w, r) ==
    Obj([main |-> Obj([temp |-> Num(t), temp_min |-> Num(tmin), temp_max |-> Num(tmax),
                       humidity |-> Num(h)]),
         wind |-> Obj([speed |-> Num(w)]),
         rain |-> Obj([k \in {"1h"} |-> Num(r)])])

\* The blob contents a raw key may hold.
Blobs ==
    {Reading(1, 5, 3, 5, 2),
     RainyReading(2, 6, 4, 6, 4, 1),
     RainyReading(2, 6, 4, 6, 4, Pow2(MantBits)),
     Obj([main |-> Obj([humidity |-> Num(5)])]),
     Obj([main |-> Obj([temp |-> Num(3), temp_min |-> Num(1), temp_max |-> Num(5)])]),
     Obj([main |-> Obj([temp |-> Num(3), temp_min |-> Num(1), temp_max |-> Num(5),
                        humidity |-> Num(5)]),
          wind |-> Obj([speed |-> Num(2)]),
          rain |-> Null]),
     Obj([main |-> Obj([temp |-> Num(3), temp_min |-> Num(1), temp_max |-> Num(5),
                        humidity |-> Str]),
          wind |-> Obj([speed |-> Num(2)]),
          rain |-> Obj([k \in {"1h"} |-> Str])]),
     NotJson,
     NoSuchKey}

\* aggregate_city_weather_async, line 98: gather starts one process_file per key.
aggregate_start ==
    /\ agg_pc = "start"
    /\ agg_pc' = "gather"
    /\ UNCHANGED <<agg_files, agg_done, metrics, agg_result, sync_result,
                   persistVars, fetchVars, syncVars, secretVars, pairVars>>

\* One process_file task resumes after get_json and runs to its end.
process_file(i) ==
    /\ agg_pc = "gather"
    /\ i \in 1..Len(agg_files)
    /\ i \notin agg_done
    /\ agg_done' = agg_done \cup {i}
    /\ metrics' = AppendReading(metrics, agg_files[i])
    /\ UNCHANGED <<agg_files, agg_pc, agg_result, sync_result, persistVars, fetchVars, syncVars,
                   secretVars, pairVars>>

\* aggregate_city_weather_async, lines 98-111: gather resumes once every
\* process_file is done; the summary is computed or the function raises.
aggregate_return ==
    /\ agg_pc = "gather"
    /\ agg_done = 1..Len(agg_files)
    /\ agg_result' = Summarize(metrics)
    /\ agg_pc' = IF Summarize(metrics).ok THEN "returned" ELSE "raised"
    /\ UNCHANGED <<agg_files, agg_done, metrics, sync_result, persistVars, fetchVars, syncVars,
                   secretVars, pairVars>>

NoSummary == [ok |-> FALSE, error |-> ""]

AggOff ==
    /\ agg_files = <<>>
    /\ agg_pc = "off"
    /\ agg_done = {}
    /\ metrics = EmptyMetrics
    /\ agg_result = NoSummary
    /\ sync_result = NoSummary

AggOn ==
    /\ agg_files \in SeqsUpTo(Blobs, MaxFiles)
    /\ agg_pc = "start"
    /\ agg_done = {}
    /\ metrics = EmptyMetrics
    /\ agg_result = NoSummary
    /\ sync_result = NoSummary

\* ------------------------------------------------------------------
\* Daily aggregation Lambda: lambdas/weather_daily_aggregator/handler.py
\* ------------------------------------------------------------------

\* parse_weather, lines 34-46: rain["1h"] is taken as it is.
parse_weather_sync(data) ==
    IF data.t # "obj" THEN ParseError("AttributeError")
    ELSE LET main == Get(data, "main", EmptyObj)
             wind == Get(data, "wind", EmptyObj)
             rain == Get(data, "rain", EmptyObj)
         IN IF main.t # "obj" \/ wind.t # "obj" \/ rain.t # "obj"
            THEN ParseError("AttributeError")
            ELSE [ok |-> TRUE,
                  temp_min |-> Get(main, "temp_min", Null),
                  temp_max |-> Get(main, "temp_max", Null),
                  temp_avg |-> Get(main, "temp", Null),
                  humidity |-> Get(main, "humidity", Null),
                  precipitation |-> Get(rain, "1h", Num(0)),
                  wind_speed |-> Get(wind, "speed", Null)]

\* aggregate_city_weather, lines 61-78: every value that is not None is appended;
\* a file that cannot be read or parsed is logged and skipped.
AppendReadingSync(m, blob) ==
    IF blob \in {NotJson, NoSuchKey} THEN m
    ELSE LET w == parse_weather_sync(blob)
         IN IF ~w.ok THEN m
            ELSE [k \in MetricKeys |-> IF w[k] # Null THEN Append(m[k], w[k]) ELSE m[k]]

RECURSIVE CollectSync(_, _)
CollectSync(m, files) ==
    IF files = <<>> THEN m
    ELSE CollectSync(AppendReadingSync(m, Head(files)), Tail(files))

Values(js) == [i \in 1..Len(js) |-> js[i].v]

AllNum(js) == \A i \in 1..Len(js) : js[i].t = "num"

\* min / max of a list that may hold values that are no numbers: a single value
\* is returned as it is, strings compare with strings, a mixed list raises.
Comparable(js) == AllNum(js) \/ Len(js) = 1 \/ \A i \in 1..Len(js) : js[i].t = "str"

\* aggregate_city_weather, lines 80-91: the dict is built field by field, and
\* the first call that raises decides the exception.
SummarizeSync(m) ==
    IF m["temp_avg"] = <<>> THEN AggError("NoValidData")
    ELSE IF m["temp_min"] = <<>> THEN AggError("ValueError")
    ELSE IF ~Comparable(m["temp_min"]) THEN AggError("TypeError")
    ELSE IF m["temp_max"] = <<>> THEN AggError("ValueError")
    ELSE IF ~Comparable(m["temp_max"]) THEN AggError("TypeError")
    ELSE IF ~AllNum(m["temp_avg"]) THEN AggError("TypeError")
    ELSE IF m["humidity"] = <<>> THEN AggError("StatisticsError")
    ELSE IF ~AllNum(m["humidity"]) THEN AggError("TypeError")
    ELSE IF ~AllNum(m["precipitation"]) THEN AggError("TypeError")
    ELSE IF m["wind_speed"] = <<>> THEN AggError("StatisticsError")
    ELSE IF ~AllNum(m["wind_speed"]) THEN AggError("TypeError")
    ELSE [ok |-> TRUE,
          temp_min |-> IF AllNum(m["temp_min"]) THEN min(Values(m["temp_min"]))
                       ELSE m["temp_min"][1],
          temp_max |-> IF AllNum(m["temp_max"]) THEN max(Values(m["temp_max"]))
                       ELSE m["temp_max"][1],
          temp_avg |-> mean(Values(m["temp_avg"])),
          humidity_avg |-> mean(Values(m["humidity"])),
          precipitation_sum |-> sum(Values(m["precipitation"])),
          wind_speed_avg |-> mean(Values(m["wind_speed"])),
          readings_count |-> Len(m["temp_avg"])]

aggregate_city_weather(files) == SummarizeSync(CollectSync(EmptyMetrics, files))

\* One call of the synchronous aggregate_city_weather on the same blobs: the
\* loop has no await, so the call is one step.
aggregate_city_weather_call ==
    /\ agg_pc # "off"
    /\ sync_result = NoSummary
    /\ sync_result' = aggregate_city_weather(agg_files)
    /\ UNCHANGED <<agg_files, agg_pc, agg_done, metrics, agg_result,
                   persistVars, fetchVars, syncVars, secretVars, pairVars>>

NextAgg ==
    \/ aggregate_start
    \/ \E i \in 1..MaxFiles : process_file(i)
    \/ aggregate_return
    \/ aggregate_city_weather_call

\* The dict handed to WeatherAggregate(**agg) and to the processed payload.
AggDict(a) == [k \in DOMAIN a \ {"ok"} |-> a[k]]

\* What the handler finds before its try block: everything set; a required
\* environment variable unset; get_secret raising; no "db_url" in the secret.
SyncConfigScenarios == {"ok", "env_unset", "secret_error", "no_db_url"}

\* lines 95-105: the exception raised before the try block, "" when none.
SetupError(cfg) ==
    CASE cfg = "env_unset" -> "EnvironmentError"
      [] cfg = "secret_error" -> "ClientError"
      [] cfg = "no_db_url" -> "KeyError"
      [] OTHER -> ""

\* datetime.now(timezone.utc).date()
Today == MaxDate

\* The event dates: a well-formed date, or 0 for a string strptime rejects.
EventDates == 0..MaxDate

\* The blob lists a city may have for its date.
FileLists ==
    {<<Reading(1, 5, 3, 5, 2)>>,
     <<Obj([main |-> Obj([humidity |-> Num(5)])])>>,
     <<RainyReading(2, 6, 4, 6, 4, 1), NotJson>>}

NoException == [type |-> "", at |-> "", city |-> ""]

\* lines 195-201: except Exception, then finally.
HandlerFails(e, where, city) ==
    /\ hpc' = "done"
    /\ hraised' = [type |-> e, at |-> where, city |-> city]
    /\ hsession' = "closed"
    /\ hresponse' = Error500(e)

\* lines 94-105, before the try block: an exception here leaves the handler.
handler_setup ==
    /\ hpc = "start"
    /\ IF SetupError(hcfg) = ""
       THEN /\ hpc' = "discover"
            /\ hsession' = "open"
            /\ UNCHANGED hraised
       ELSE /\ hpc' = "crashed"
            /\ hraised' = [type |-> SetupError(hcfg), at |-> "setup", city |-> ""]
            /\ UNCHANGED hsession
    /\ UNCHANGED <<hcfg, hevent, hrun, raw_files, db_cities, htarget, hprefixes, hidx, hresults,
                   hfaults, hresponse, persistVars, fetchVars, aggVars, secretVars, pairVars>>

ListOutcomes == {"ok", "ClientError", "EndpointConnectionError"}

\* S3Service.list_folders over the raw bucket: the sorted city prefixes.
CityPrefixes == SeqOfSet({c \in CityIds : raw_files[c].files # <<>>})

\* a handler that ignores the event's date
AlwaysYesterday(event) == Today - 1

\* lines 108-112: yesterday in UTC, or the date of the event.
TargetDate(event) == IF event # None THEN event[1] ELSE Today - 1

\* lines 107-122: the target date, then list_folders, which swallows a
\* ClientError (returns []) and lets any other exception through.
handler_discover ==
    /\ hpc = "discover"
    /\ IF hevent # None /\ hevent[1] = 0
       THEN /\ HandlerFails("ValueError", "date", "")
            /\ UNCHANGED <<htarget, hprefixes, hfaults>>
       ELSE \E o \in ListOutcomes :
            /\ htarget' = TargetDate(hevent)
            /\ hfaults' = IF o = "ok" THEN hfaults
                          ELSE Append(hfaults, [at |-> "list_folders", fault |-> o])
            /\ IF o = "EndpointConnectionError"
               THEN /\ HandlerFails(o, "list_folders", "")
                    /\ UNCHANGED hprefixes
               ELSE /\ hprefixes' = IF o = "ok" THEN CityPrefixes ELSE <<>>
                    /\ hpc' = "loop"
                    /\ UNCHANGED <<hraised, hsession, hresponse>>
    /\ UNCHANGED <<hcfg, hevent, hrun, raw_files, db_cities, hidx, hresults,
                   weather_aggregates, processed_bucket, city_tasks, prun, pjobs, presults,
                   fetchVars, aggVars, secretVars, pairVars>>

\* The external fault, if any, that hits one iteration of the loop.
CityFaults ==
    {"none", "list_objects_ClientError", "list_objects_error", "query_error",
     "commit_error", "put_json_ClientError", "put_json_error"}

\* the insert-if-absent of save_weather_aggregate in place of the upsert
InsertIfAbsent(rows, c, d, agg) ==
    IF RowsFor(rows, c, d) # <<>> THEN rows
    ELSE Append(rows, [city_id |-> c, date |-> d, agg |-> agg])

\* lines 147-162: the row of (city, date) is updated in place, setattr for
\* every key of agg, or a row is added.
Upsert(rows, c, d, agg) ==
    IF RowsFor(rows, c, d) # <<>>
    THEN [i \in 1..Len(rows) |->
            IF rows[i].city_id = c /\ rows[i].date = d
            THEN [rows[i] EXCEPT !.agg = [k \in DOMAIN @ \cup DOMAIN agg |->
                                            IF k \in DOMAIN agg THEN agg[k] ELSE @[k]]]
            ELSE rows[i]]
    ELSE Append(rows, [city_id |-> c, date |-> d, agg |-> agg])

\* the loop without its `continue` on a city the table does not hold
AlwaysInDb(c) == FALSE

\* lines 140-145: `if not db_city: continue`
NoDbCity(c) == c \notin db_cities

\* the loop without its `continue` on an empty listing
NeverSkipped(day_files) == FALSE

\* lines 129-131: `if not day_files: continue`
NoDayFiles(day_files) == day_files = <<>>

\* lines 124-188: one iteration of the loop over city_prefixes.
handler_city ==
    /\ hpc = "loop"
    /\ hidx <= Len(hprefixes)
    /\ \E fault \in CityFaults :
       LET c == hprefixes[hidx]
           name == CityName(c)
           listed == IF raw_files[c].date = htarget THEN raw_files[c].files ELSE <<>>
           day_files == IF fault = "list_objects_ClientError" THEN <<>> ELSE listed
           agg == aggregate_city_weather(day_files)
           key == [prefix |-> "processed", city |-> name, date |-> htarget]
           Skip == /\ hidx' = hidx + 1
                   /\ UNCHANGED <<hpc, hresults, hraised, hsession, hresponse,
                                  weather_aggregates, processed_bucket>>
       IN /\ hfaults' = IF fault = "none" THEN hfaults
                        ELSE Append(hfaults, [at |-> name, fault |-> fault])
          /\ IF fault = "list_objects_error"
             THEN /\ HandlerFails("EndpointConnectionError", "list_objects", name)
                  /\ UNCHANGED <<hidx, hresults, weather_aggregates, processed_bucket>>
             ELSE IF NoDayFiles(day_files)
             THEN /\ fault \in {"none", "list_objects_ClientError"}
                  /\ Skip
             ELSE IF ~agg.ok
             THEN /\ fault = "none"
                  /\ HandlerFails(agg.error, "aggregate", name)
                  /\ UNCHANGED <<hidx, hresults, weather_aggregates, processed_bucket>>
             ELSE IF fault = "query_error"
             THEN /\ HandlerFails("OperationalError", "query", name)
                  /\ UNCHANGED <<hidx, hresults, weather_aggregates, processed_bucket>>
             ELSE IF NoDbCity(c)
             THEN /\ fault = "none"
                  /\ Skip
             ELSE IF fault = "commit_error"
             THEN /\ HandlerFails("OperationalError", "commit", name)
                  /\ UNCHANGED <<hidx, hresults, weather_aggregates, processed_bucket>>
             ELSE /\ fault \in {"none", "put_json_ClientError", "put_json_error"}
                  /\ weather_aggregates' = Upsert(weather_aggregates, c, htarget, AggDict(agg))
                  /\ IF fault = "put_json_error"
                     THEN /\ HandlerFails("EndpointConnectionError", "put_json", name)
                          /\ UNCHANGED <<hidx, hresults, processed_bucket>>
                     ELSE /\ processed_bucket' = IF fault = "none"
                                                 THEN PutObject(processed_bucket, key,
                                                                Payload(AggDict(agg), day_files))
                                                 ELSE processed_bucket
                          /\ hresults' = Append(hresults,
                                [city |-> name, date |-> htarget, processed_file |-> key,
                                 records_used |-> agg.readings_count])
                          /\ hidx' = hidx + 1
                          /\ UNCHANGED <<hpc, hraised, hsession, hresponse>>
    /\ UNCHANGED <<hcfg, hevent, hrun, raw_files, db_cities, htarget, hprefixes,
                   city_tasks, prun, pjobs, presults, fetchVars, aggVars,
                   secretVars, pairVars>>

\* lines 190-193 and 200-201: the loop is over; the session is closed.
handler_return ==
    /\ hpc = "loop"
    /\ hidx > Len(hprefixes)
    /\ hpc' = "done"
    /\ hsession' = "closed"
    /\ hresponse' = [statusCode |-> 200, body |-> hresults]
    /\ UNCHANGED <<hcfg, hevent, hrun, raw_files, db_cities, htarget, hprefixes, hidx, hresults,
                   hfaults, hraised, persistVars, fetchVars, aggVars, secretVars, pairVars>>

NoFiles == [date |-> 1, files |-> <<>>]

SyncOff ==
    /\ hcfg = "ok"
    /\ hevent = None
    /\ raw_files = [c \in CityIds |-> NoFiles]
    /\ db_cities = {}
    /\ hpc = "off"
    /\ htarget = 0
    /\ hprefixes = <<>>
    /\ hidx = 1
    /\ hresults = <<>>
    /\ hfaults = <<>>
    /\ hraised = NoException
    /\ hsession = "none"
    /\ hresponse = NoResponse
    /\ hrun = 1

SyncOn ==
    /\ hcfg \in SyncConfigScenarios
    /\ hevent \in {None} \cup {Some(d) : d \in EventDates}
    /\ raw_files \in [CityIds -> {NoFiles} \cup [date : Dates, files : FileLists]]
    /\ db_cities \in SUBSET CityIds
    /\ hpc = "start"
    /\ htarget = 0
    /\ hprefixes = <<>>
    /\ hidx = 1
    /\ hresults = <<>>
    /\ hfaults = <<>>
    /\ hraised = NoException
    /\ hsession = "none"
    /\ hresponse = NoResponse
    /\ hrun = 1

NextSync ==
    \/ handler_setup
    \/ handler_discover
    \/ handler_city
    \/ handler_return

MaxSyncRuns == 2

\* The Lambda is invoked again, with the same configuration and event, once
\* the previous invocation has ended: the stores keep what was written, and
\* the raw blobs of each city's day may have changed in between.
handler_again ==
    /\ hpc \in {"done", "crashed"}
    /\ hrun < MaxSyncRuns
    /\ hrun' = hrun + 1
    /\ raw_files' \in {f \in [CityIds -> {NoFiles} \cup [date : Dates, files : FileLists]] :
                          \A c \in CityIds :
                              IF raw_files[c] = NoFiles THEN f[c] = NoFiles
                              ELSE f[c] # NoFiles /\ f[c].date = raw_files[c].date}
    /\ hpc' = "start"
    /\ htarget' = 0
    /\ hprefixes' = <<>>
    /\ hidx' = 1
    /\ hresults' = <<>>
    /\ hfaults' = <<>>
    /\ hraised' = NoException
    /\ hsession' = "none"
    /\ hresponse' = NoResponse
    /\ UNCHANGED <<hcfg, hevent, db_cities, persistVars, fetchVars, aggVars, secretVars, pairVars>>

NextSyncRuns == NextSync \/ handler_again

\* ------------------------------------------------------------------
\* Secrets: services/secrets_manager_service_async.py
\* ------------------------------------------------------------------
NumServices == 2
NumSecretVersions == 2
MaxSecretCalls == 3

\* @lru_cache(maxsize=10), line 25
CacheMaxSize == 10

Instances == 1..NumServices

SecretNames == {"api", "db"}

\* What Secrets Manager answers to get_secret_value: a SecretString holding a
\* JSON object (the secret in one of its versions), an error of the service,
\* an empty SecretString, one that is no JSON, one that is no JSON object.
SecretAnswers ==
    {[kind |-> "dict", version |-> v] : v \in 1..NumSecretVersions}
        \cup {[kind |-> k] : k \in {"ClientError", "empty", "not_json", "not_dict"}}

\* The body of get_secret, lines 44-64, run on one answer of the service.
GetSecretBody(answer) ==
    CASE answer.kind = "dict" -> Returned([version |-> answer.version])
      [] answer.kind = "ClientError" -> Raised("ClientError")
      [] answer.kind = "not_json" -> Raised("JSONDecodeError")
      [] OTHER -> Raised("ValueError")

\* lru_cache: the index of the entry of a key, 0 when the key is not cached.
CacheIndex(cache, key) ==
    IF \E i \in 1..Len(cache) : cache[i].key = key
    THEN CHOOSE i \in 1..Len(cache) : cache[i].key = key
    ELSE 0

\* lru_cache on a hit: the entry becomes the most recently used one.
CacheTouch(cache, i) ==
    SubSeq(cache, 1, i - 1) \o SubSeq(cache, i + 1, Len(cache)) \o <<cache[i]>>

\* lru_cache on a miss: the new entry is stored, the least recently used one
\* is dropped when the cache is full.
CacheStore(cache, entry) ==
    IF Len(cache) >= CacheMaxSize THEN Append(Tail(cache), entry) ELSE Append(cache, entry)

\* Awaiting a coroutine object: its body runs on the first await; a coroutine
\* that has been awaited before raises RuntimeError ("cannot reuse already
\* awaited coroutine").
AwaitCoroutine(awaited, answer) ==
    IF awaited THEN Raised("RuntimeError") ELSE GetSecretBody(answer)

\* `await service.get_secret(name)`, lines 25-64. lru_cache wraps the async
\* function, so what it stores under (self, secret_name) is the coroutine
\* object the call creates, not the dict the coroutine returns: a miss creates
\* and stores a coroutine, and awaiting it makes the remote call; a hit hands
\* back the stored coroutine, which has been awaited already.
get_secret(inst, name) ==
    /\ inst \in services
    /\ Len(secret_log) < MaxSecretCalls
    /\ LET key == <<inst, name>>
           i == CacheIndex(lru, key)
       IN IF i # 0
          THEN /\ lru' = CacheTouch(lru, i)
               /\ secret_log' = Append(secret_log,
                      [inst |-> inst, name |-> name, remote |-> FALSE,
                       out |-> AwaitCoroutine(TRUE, [kind |-> "none"])])
               /\ UNCHANGED remote_calls
          ELSE \E answer \in SecretAnswers :
               /\ lru' = CacheStore(lru, [key |-> key])
               /\ remote_calls' = Append(remote_calls, name)
               /\ secret_log' = Append(secret_log,
                      [inst |-> inst, name |-> name, remote |-> TRUE,
                       out |-> AwaitCoroutine(FALSE, answer)])
    /\ UNCHANGED <<services, persistVars, fetchVars, aggVars, syncVars, pairVars>>

SecretsOff ==
    /\ services = {}
    /\ lru = <<>>
    /\ remote_calls = <<>>
    /\ secret_log = <<>>

SecretsOn ==
    /\ services = Instances
    /\ lru = <<>>
    /\ remote_calls = <<>>
    /\ secret_log = <<>>

NextSecrets == \E inst \in Instances, name \in SecretNames : get_secret(inst, name)

\* ------------------------------------------------------------------
\* Concurrent aggregations: utils/weather_utils_async.py
\* ------------------------------------------------------------------
NumCalls == 2
MaxPairFiles == 2

\* The calls of aggregate_city_weather_async in flight on one event loop.
Calls == 1..NumCalls

\* The blob contents behind the keys of the cities aggregated concurrently.
PairBlobs == {Reading(1, 5, 3, 5, 2), RainyReading(2, 6, 4, 6, 4, 1), NotJson}

\* one accumulator dict at module level, shared by every call
ModuleLevelMetrics(a) == 1

\* lines 77-84: `metrics` is a local variable of the call, created by it and
\* captured by the process_file closures of that call only.
MetricsOf(a) == a

\* lines 77-98 of one call: the accumulator dict is created and gather starts
\* one process_file per key.
concurrent_start(a) ==
    /\ a \in DOMAIN pair_pc
    /\ pair_pc[a] = "start"
    /\ pair_pc' = [pair_pc EXCEPT ![a] = "gather"]
    /\ pair_metrics' = [pair_metrics EXCEPT ![MetricsOf(a)] = EmptyMetrics]
    /\ UNCHANGED <<pair_files, pair_done, pair_result,
                   persistVars, fetchVars, aggVars, syncVars, secretVars>>

\* lines 86-96: one process_file task of call a resumes after get_json and
\* runs to its end.
concurrent_process_file(a, i) ==
    /\ a \in DOMAIN pair_pc
    /\ pair_pc[a] = "gather"
    /\ i \in 1..Len(pair_files[a])
    /\ i \notin pair_done[a]
    /\ pair_done' = [pair_done EXCEPT ![a] = @ \cup {i}]
    /\ pair_metrics' = [pair_metrics EXCEPT ![MetricsOf(a)] =
                            AppendReading(@, pair_files[a][i])]
    /\ UNCHANGED <<pair_files, pair_pc, pair_result,
                   persistVars, fetchVars, aggVars, syncVars, secretVars>>

\* lines 98-111: gather of call a resumes once each of its process_file tasks
\* is done; the summary is computed or the call raises.
concurrent_return(a) ==
    /\ a \in DOMAIN pair_pc
    /\ pair_pc[a] = "gather"
    /\ pair_done[a] = 1..Len(pair_files[a])
    /\ pair_result' = [pair_result EXCEPT ![a] = Summarize(pair_metrics[MetricsOf(a)])]
    /\ pair_pc' = [pair_pc EXCEPT ![a] =
                      IF Summarize(pair_metrics[MetricsOf(a)]).ok THEN "returned" ELSE "raised"]
    /\ UNCHANGED <<pair_files, pair_done, pair_metrics,
                   persistVars, fetchVars, aggVars, syncVars, secretVars>>

PairOff ==
    /\ pair_files = <<>>
    /\ pair_pc = <<>>
    /\ pair_done = <<>>
    /\ pair_metrics = <<>>
    /\ pair_result = <<>>

PairOn ==
    /\ pair_files \in [Calls -> SeqsUpTo(PairBlobs, MaxPairFiles)]
    /\ pair_pc = [a \in Calls |-> "start"]
    /\ pair_done = [a \in Calls |-> {}]
    /\ pair_metrics = [a \in Calls |-> EmptyMetrics]
    /\ pair_result = [a \in Calls |-> NoSummary]

NextPair ==
    \E a \in Calls :
        \/ concurrent_start(a)
        \/ \E i \in 1..MaxPairFiles : concurrent_process_file(a, i)
        \/ concurrent_return(a)

\* ------------------------------------------------------------------
\* Specifications
\* ------------------------------------------------------------------
InitPersist == StoresEmpty /\ PersistOn /\ FetchOff /\ AggOff /\ SyncOff /\ SecretsOff /\ PairOff

InitFetch == StoresEmpty /\ PersistOff /\ FetchOn /\ AggOff /\ SyncOff /\ SecretsOff /\ PairOff

InitAgg == StoresEmpty /\ PersistOff /\ FetchOff /\ AggOn /\ SyncOff /\ SecretsOff /\ PairOff

\* The daily aggregator may find the row an earlier run wrote for yesterday.
InitSync ==
    /\ PersistOff /\ FetchOff /\ AggOff /\ SyncOn /\ SecretsOff /\ PairOff
    /\ processed_bucket = {}
    /\ weather_aggregates \in
          {<<>>} \cup {<<[city_id |-> c, date |-> Today - 1, agg |-> Summary(1, c)]>> :
                          c \in db_cities}

SpecSync == InitSync /\ [][NextSync]_vars

SpecSyncRuns == InitSync /\ [][NextSyncRuns]_vars

SpecAgg == InitAgg /\ [][NextAgg]_vars

SpecPersist == InitPersist /\ [][NextPersist]_vars

SpecFetch == InitFetch /\ [][NextFetch]_vars

InitFanOut == InitPersist \/ InitFetch

NextFanOut == NextPersist \/ NextFetch

SpecFanOut == InitFanOut /\ [][NextFanOut]_vars

\* ------------------------------------------------------------------
\* Claims
\* ------------------------------------------------------------------
Key(t) == <<t.city_id, t.target_date>>

RowOf(t) == [city_id |-> t.city_id, date |-> t.target_date, agg |-> t.agg]

\* save_weather_aggregate has returned to process_city_aggregate without raising.
SaveReturned(j) == j.pc \in {"put", "done"} /\ j.err \notin DBErrors

JobIds == {<<r, i>> : r \in Runs, i \in 1..NumCities}

HasJob(x) == x[2] <= Len(pjobs[x[1]])

\* C1: whenever a call of save_weather_aggregate for (city_id, date) with summary S
\* returns, the repository holds exactly one row for that key and its fields equal
\* S; in particular a second call with S2 after a first with S1 leaves the row at S2.
C1_UpsertLeavesLastSummary ==
    [][\A r \in Runs : \A i \in 1..Len(pjobs[r]) :
          (~SaveReturned(pjobs[r][i]) /\ SaveReturned(pjobs'[r][i]))
          => RowsFor(weather_aggregates', city_tasks[r][i].city_id,
                     city_tasks[r][i].target_date) = <<RowOf(city_tasks[r][i])>>]_vars

\* C2: in every reachable state the repository holds at most one aggregate row
\* per (city_id, date).
C2_AtMostOneRowPerKey ==
    \A c \in CityIds, d \in Dates : Len(RowsFor(weather_aggregates, c, d)) <= 1

\* Two overlapping runs both tried to insert the same key; the second insert was
\* rejected.
C2_Witness ==
    \E x \in JobIds, y \in JobIds :
        /\ x[1] # y[1] /\ HasJob(x) /\ HasJob(y)
        /\ Key(city_tasks[x[1]][x[2]]) = Key(city_tasks[y[1]][y[2]])
        /\ pjobs[x[1]][x[2]].err = "IntegrityError"
        /\ SaveReturned(pjobs[y[1]][y[2]])
        /\ Len(weather_aggregates) >= 1

\* C3: two overlapping runs never both issue add_weather_aggregate for the same
\* (city_id, date).
C3_NeverTwoInsertsForOneKey ==
    \A x \in JobIds, y \in JobIds :
        (/\ x[1] # y[1] /\ HasJob(x) /\ HasJob(y)
         /\ Key(city_tasks[x[1]][x[2]]) = Key(city_tasks[y[1]][y[2]]))
        => ~(pjobs[x[1]][x[2]].existing = "none" /\ pjobs[y[1]][y[2]].existing = "none")

C5_NoShortCircuit ==
    /\ \A r \in Runs : prun[r] = "returned" =>
          \A i \in 1..Len(city_tasks[r]) : pjobs[r][i].pc = "done"
    /\ fpc = "returned" =>
          /\ Len(fjobs) = Len(fcities)
          /\ \A i \in 1..Len(fcities) : fjobs[i].pc = "done"

\* The fetcher's batch returned although its first job had failed.
C5_Witness ==
    /\ fpc = "returned"
    /\ Len(fjobs) = 2
    /\ fjobs[1].err # ""
    /\ fjobs[2].pc = "done"

\* C9: once initialisation and city listing succeeded, async_handler returns 200
\* with one entry per city, and every city whose fetch or store failed has an
\* error entry.
C9_PartialFailureVisible ==
    fpc = "returned" =>
        /\ fresponse.statusCode = 200
        /\ Len(fresponse.body) = Len(fcities)
        /\ \A i \in 1..Len(fcities) :
              (fjobs[i].err # "" \/ fjobs[i].put # "stored")
              => "error" \in DOMAIN fresponse.body[i]

RECURSIVE Perms(_)
\* the orderings of the index set S
Perms(S) ==
    IF S = {} THEN {<<>>}
    ELSE UNION {{<<x>> \o q : q \in Perms(S \ {x})} : x \in S}

RECURSIVE AppendAll(_, _, _)
\* the accumulator lists after the files are processed in the order ord
AppendAll(m, files, ord) ==
    IF ord = <<>> THEN m
    ELSE AppendAll(AppendReading(m, files[Head(ord)]), files, Tail(ord))

\* C10: for inputs with at least one temp value, the summary returned equals the
\* summary of every other order in which the files can be listed or their
\* process_file tasks can complete.
C10_OrderIndependent ==
    agg_pc = "returned" =>
        \A ord \in Perms(1..Len(agg_files)) :
            Summarize(AppendAll(EmptyMetrics, agg_files, ord)) = agg_result

\* The city has at least one raw key for the target date.
Attempted(c) == raw_files[c].files # <<>> /\ raw_files[c].date = htarget

\* The run met no external fault and its event date, if any, was well formed.
CleanRun == hpc = "done" /\ hfaults = <<>> /\ hraised.at # "date"

\* C6: a run of the aggregation pipeline returns, for every attempted city,
\* exactly one entry, a success or an error; no per-city error is thrown past
\* the per-city boundary or makes the city vanish from the result set.
C6_ResultSetComplete ==
    CleanRun =>
        /\ hresponse.statusCode = 200
        /\ \A c \in CityIds : Attempted(c) =>
              Len(SelectSeq(hresponse.body, LAMBDA e : e.city = CityName(c))) = 1

\* C7: a city whose aggregation fails with NoValidData is recorded as a per-city
\* failure and not persisted, and every other city discovered in the run is
\* still aggregated and persisted.
C7_NoValidDataIsolated ==
    CleanRun =>
        \A c \in CityIds :
            (/\ Attempted(c)
             /\ ~aggregate_city_weather(raw_files[c].files).ok
             /\ aggregate_city_weather(raw_files[c].files).error = "NoValidData")
            => /\ hresponse.statusCode = 200
               /\ \E i \in 1..Len(hresponse.body) :
                     /\ hresponse.body[i].city = CityName(c)
                     /\ "error" \in DOMAIN hresponse.body[i]
               /\ [prefix |-> "processed", city |-> CityName(c), date |-> htarget]
                     \notin Keys(processed_bucket)
               /\ \A o \in CityIds \ {c} :
                     (/\ Attempted(o) /\ o \in db_cities
                      /\ aggregate_city_weather(raw_files[o].files).ok)
                     => /\ RowsFor(weather_aggregates, o, htarget) =
                              <<[city_id |-> o, date |-> htarget,
                                 agg |-> AggDict(aggregate_city_weather(raw_files[o].files))]>>
                        /\ [prefix |-> "processed", city |-> CityName(o), date |-> htarget]
                              \in Keys(processed_bucket)

\* C8: the handler ends with statusCode 500 only because of configuration or
\* connectivity errors, never because of a failure confined to one city (no
\* valid data, a failing DB write, a failing blob write).
C8_FailedOnlyWhenFatal ==
    (hpc = "done" /\ hresponse.statusCode = 500)
    => hraised.at \notin {"aggregate", "commit", "put_json"}

\* The raw document carries a value under main.temp (anything but null).
TempPresent(blob) ==
    /\ blob.t = "obj"
    /\ "main" \in DOMAIN blob.f
    /\ blob.f["main"].t = "obj"
    /\ "temp" \in DOMAIN blob.f["main"].f
    /\ blob.f["main"].f["temp"] # Null

NoTempAtAll == \A i \in 1..Len(agg_files) : ~TempPresent(agg_files[i])

\* C11: aggregation over an empty list of readings, and over readings none of
\* which has a temp value, raises ValueError("No valid data ...") and returns no
\* summary, in the async and in the synchronous implementation.
C11_NoValidData ==
    NoTempAtAll =>
        /\ agg_pc # "returned"
        /\ agg_pc = "raised" => agg_result = AggError("NoValidData")
        /\ sync_result # NoSummary => sync_result = AggError("NoValidData")

\* Two blobs, neither with a temp value, went through both implementations.
C11_Witness ==
    /\ NoTempAtAll
    /\ Len(agg_files) = 2
    /\ agg_pc = "raised"
    /\ agg_result = AggError("NoValidData")
    /\ sync_result = AggError("NoValidData")

\* The empty list went through both implementations.
C11_WitnessEmpty ==
    /\ agg_files = <<>>
    /\ agg_pc = "raised"
    /\ sync_result = AggError("NoValidData")

\* Aggregation alone, the daily aggregator, and the async persistence path fed
\* with summaries: the components that produce or write a summary.
InitPipeline == InitAgg \/ InitSync \/ InitPersist

NextPipeline == NextAgg \/ NextSync \/ NextPersist

SpecPipeline == InitPipeline /\ [][NextPipeline]_vars

\* C12: every summary aggregation returns, every row of weather_aggregates and
\* every processed blob written has readings_count >= 1.
C12_ReadingsCountPositive ==
    /\ agg_pc = "returned" => agg_result.readings_count >= 1
    /\ sync_result.ok => sync_result.readings_count >= 1
    /\ \A i \in 1..Len(weather_aggregates) :
          weather_aggregates[i].agg.readings_count >= 1
    /\ \A o \in processed_bucket : o.body.aggregates.readings_count >= 1

\* The daily aggregator wrote a row and a processed blob for a city some of
\* whose blobs gave no reading.
C12_Witness ==
    /\ hpc = "done"
    /\ hresponse.statusCode = 200
    /\ \E c \in CityIds :
          /\ Len(raw_files[c].files) = 2
          /\ RowsFor(weather_aggregates, c, htarget) # <<>>
          /\ RowsFor(weather_aggregates, c, htarget)[1].agg.readings_count = 1
          /\ \E o \in processed_bucket :
                o.key.city = CityName(c) /\ o.body.aggregates.readings_count = 1

\* The numeric value a raw document carries under outer.inner, if any.
Field(blob, outer, inner) ==
    IF /\ blob.t = "obj"
       /\ outer \in DOMAIN blob.f
       /\ blob.f[outer].t = "obj"
       /\ inner \in DOMAIN blob.f[outer].f
       /\ blob.f[outer].f[inner].t = "num"
    THEN <<blob.f[outer].f[inner].v>>
    ELSE <<>>

RECURSIVE Present(_, _, _)
\* The present values of one metric over the documents.
Present(files, outer, inner) ==
    IF files = <<>> THEN <<>>
    ELSE Field(Head(files), outer, inner) \o Present(Tail(files), outer, inner)

\* The reference reduction over the documents' present values; the sum and the
\* means are the exact ones, rounded once.
Reference(files) ==
    [temp_min |-> min(Present(files, "main", "temp_min")),
     temp_max |-> max(Present(files, "main", "temp_max")),
     temp_avg |-> mean(Present(files, "main", "temp")),
     humidity_avg |-> mean(Present(files, "main", "humidity")),
     precipitation_sum |-> RoundRat(ExactSum(Present(files, "rain", "1h")), 1),
     wind_speed_avg |-> mean(Present(files, "wind", "speed")),
     readings_count |-> Len(Present(files, "main", "temp"))]

\* C13: a summary that aggregation returns equals the reference reduction of
\* its input, field by field, in the async and in the synchronous implementation.
C13_MatchesReference ==
    /\ agg_pc = "returned" => AggDict(agg_result) = Reference(agg_files)
    /\ sync_result.ok => AggDict(sync_result) = Reference(agg_files)

\* parse_weather raises on none of the documents.
EveryFileParses == \A i \in 1..Len(agg_files) :
    agg_files[i] \notin {NotJson, NoSuchKey} /\ parse_weather(agg_files[i]).ok

ButSum(a) == [k \in DOMAIN a \ {"precipitation_sum"} |-> a[k]]

\* What remains of the reference reduction once the order-dependent sum and
\* the documents parse_weather raises on are set aside: every other field
\* equals the reference.
ReferenceApartFromSumAndParse ==
    EveryFileParses =>
        /\ agg_pc = "returned" => ButSum(AggDict(agg_result)) = ButSum(Reference(agg_files))
        /\ sync_result.ok => ButSum(AggDict(sync_result)) = ButSum(Reference(agg_files))

\* get_json and parse_weather both succeed on the blob.
Survives(blob) == blob \notin {NotJson, NoSuchKey} /\ parse_weather(blob).ok

SurvivingFiles == SelectSeq(agg_files, Survives)

SomeFileFails == \E i \in 1..Len(agg_files) : ~Survives(agg_files[i])

\* What aggregate_city_weather_async can give on the surviving blobs alone.
OutcomesOnSurvivors ==
    {Summarize(AppendAll(EmptyMetrics, SurvivingFiles, ord)) :
        ord \in Perms(1..Len(SurvivingFiles))}

\* C14 as stated: when some blob fails and another yields a temp value,
\* aggregation succeeds and readings_count is the number of surviving readings
\* with a temp value.
C14_MalformedSkipAlwaysSucceeds ==
    (SomeFileFails /\ Present(SurvivingFiles, "main", "temp") # <<>>) =>
        /\ agg_pc # "raised"
        /\ agg_pc = "returned" =>
              agg_result.readings_count = Len(Present(SurvivingFiles, "main", "temp"))
        /\ sync_result # NoSummary =>
              /\ sync_result.ok
              /\ sync_result.readings_count = Len(Present(SurvivingFiles, "main", "temp"))

\* C14 amended: when some blob fails to be fetched or parsed, every
\* process_file task still runs, and aggregation returns or raises exactly what
\* it does on the surviving blobs alone; when it returns, readings_count is the
\* number of surviving readings with a temp value.
C14_MalformedSkip ==
    SomeFileFails =>
        /\ agg_pc \in {"returned", "raised"} =>
              /\ agg_done = 1..Len(agg_files)
              /\ agg_result \in OutcomesOnSurvivors
        /\ agg_pc = "returned" =>
              agg_result.readings_count = Len(Present(SurvivingFiles, "main", "temp"))
        /\ sync_result # NoSummary =>
              sync_result = aggregate_city_weather(SurvivingFiles)
        /\ sync_result.ok =>
              sync_result.readings_count = Len(Present(SurvivingFiles, "main", "temp"))

\* Three blobs, one of them no JSON: both implementations returned a summary
\* of the two others.
C14_Witness ==
    /\ Len(agg_files) = 3
    /\ Len(SurvivingFiles) = 2
    /\ NotJson \in Range(agg_files)
    /\ agg_pc = "returned"
    /\ agg_result.readings_count = 2
    /\ sync_result.ok
    /\ sync_result.readings_count = 2

\* The raw document has a rain."1h" field.
HasRain1h(blob) ==
    /\ "rain" \in DOMAIN blob.f
    /\ blob.f["rain"].t = "obj"
    /\ "1h" \in DOMAIN blob.f["rain"].f

\* C15: every process_file step on a successfully parsed reading appends exactly
\* one value to the precipitation list, and that value is 0.0 when the payload
\* has no rain."1h" field.
C15_PrecipitationDefault ==
    [][\A i \in 1..Len(agg_files) :
          (i \notin agg_done /\ i \in agg_done' /\ Survives(agg_files[i])) =>
              /\ Len(metrics'["precipitation"]) = Len(metrics["precipitation"]) + 1
              /\ ~HasRain1h(agg_files[i]) =>
                    metrics'["precipitation"] = Append(metrics["precipitation"], 0)]_vars

\* Some surviving reading has a temp, a temp_min and a temp_max value, and none
\* has a humidity value or none has a wind speed.
HumidityOrWindEmpty ==
    /\ Present(SurvivingFiles, "main", "temp") # <<>>
    /\ Present(SurvivingFiles, "main", "temp_min") # <<>>
    /\ Present(SurvivingFiles, "main", "temp_max") # <<>>
    /\ \/ Present(SurvivingFiles, "main", "humidity") = <<>>
       \/ Present(SurvivingFiles, "wind", "speed") = <<>>

\* C16: when some reading has a temp value but none has a humidity value (or
\* none a wind speed), aggregation returns no summary and fails with the same
\* failure as the empty-temp case, ValueError("No valid data ...").
C16_EmptyMetricIsNoValidData ==
    (HumidityOrWindEmpty /\ agg_pc \in {"returned", "raised"}) =>
        /\ agg_pc = "raised"
        /\ agg_result = AggError("NoValidData")

\* The part that holds: no summary is returned in that case.
EmptyMetricNeverSummarized == HumidityOrWindEmpty => agg_pc # "returned"

\* Where parse_weather reads each metric of the raw document.
MetricPath ==
    [temp_min |-> <<"main", "temp_min">>, temp_max |-> <<"main", "temp_max">>,
     temp_avg |-> <<"main", "temp">>, humidity |-> <<"main", "humidity">>,
     wind_speed |-> <<"wind", "speed">>]

\* C17: on a payload that is a record parse_weather never raises, in either
\* implementation, and every valid metric of the reading reaches the
\* accumulator lists, whatever the other fields and nesting levels hold.
C17_ParseNeverFails ==
    [][\A i \in 1..Len(agg_files) :
          (i \notin agg_done /\ i \in agg_done' /\ agg_files[i].t = "obj") =>
              /\ parse_weather(agg_files[i]).ok
              /\ parse_weather_sync(agg_files[i]).ok
              /\ \A k \in DOMAIN MetricPath :
                    metrics'[k] = metrics[k] \o
                        Field(agg_files[i], MetricPath[k][1], MetricPath[k][2])]_vars

\* The row and the processed blob the daily aggregator writes for city c.
Persisted(c) ==
    LET agg == AggDict(aggregate_city_weather(raw_files[c].files))
        key == [prefix |-> "processed", city |-> CityName(c), date |-> htarget]
    IN /\ RowsFor(weather_aggregates, c, htarget) =
             <<[city_id |-> c, date |-> htarget, agg |-> agg]>>
       /\ [key |-> key, body |-> Payload(agg, raw_files[c].files)] \in processed_bucket

\* The run's only fault was a failing DB write or blob write of one city, and
\* every attempted city has a summary.
OneWriteFailed ==
    /\ hpc = "done"
    /\ Len(hfaults) = 1
    /\ hfaults[1].fault \in {"commit_error", "put_json_error", "put_json_ClientError"}
    /\ \A c \in CityIds : Attempted(c) => aggregate_city_weather(raw_files[c].files).ok

\* C18: when the DB write or the blob write of one city fails, every other
\* city of the run, processed before or after it, ends up persisted: its row
\* and its blob are there as written.
C18_PersistenceIsolation ==
    OneWriteFailed =>
        \A o \in CityIds :
            (CityName(o) # hfaults[1].at /\ Attempted(o) /\ o \in db_cities) => Persisted(o)

\* The half that holds in the daily aggregator: the cities the loop handled
\* before the failing write are persisted when the run ends; the rollback of
\* the except clause does not undo their commits.
CommittedWritesStay ==
    OneWriteFailed =>
        \A k \in 1..Len(hprefixes) :
            (/\ k < hidx
             /\ CityName(hprefixes[k]) # hfaults[1].at
             /\ Attempted(hprefixes[k])
             /\ hprefixes[k] \in db_cities) => Persisted(hprefixes[k])

\* The async path: once process_all_cities has returned, every job that did
\* not fail has its row in place and, if its put stored the object, its blob,
\* whatever happened to the other jobs.
AsyncPersistenceIsolated ==
    \A r \in Runs : prun[r] = "returned" =>
        \A i \in 1..Len(city_tasks[r]) :
            LET t == city_tasks[r][i]
            IN /\ pjobs[r][i].err = "" =>
                     Len(RowsFor(weather_aggregates, t.city_id, t.target_date)) = 1
               /\ pjobs[r][i].put = "stored" =>
                     ProcessedKey(t) \in Keys(processed_bucket)

\* C19: whenever the blob put of a city did not store the object, the city's
\* entry in the returned list is an error entry, in the persistence stage and
\* in the fetcher.
C19_FailedPutIsError ==
    /\ \A r \in Runs : prun[r] = "returned" =>
          \A i \in 1..Len(city_tasks[r]) :
              pjobs[r][i].put \in PutOutcomes \ {"stored"} =>
                  /\ "error" \in DOMAIN presults[r][i]
                  /\ "processed_file" \notin DOMAIN presults[r][i]
    /\ fpc = "returned" =>
          \A i \in 1..Len(fcities) :
              fjobs[i].put \in PutOutcomes \ {"stored"} =>
                  /\ "error" \in DOMAIN fresponse.body[i]
                  /\ "s3_path" \notin DOMAIN fresponse.body[i]

\* C20: a city prefix with no raw key for the target date gets no result entry
\* and no error, no row and no processed blob are written for it, no lookup,
\* aggregation or write of its iteration can fail the run, and the loop goes on
\* to the next prefix.
C20_DiscoverySkip ==
    \A k \in 1..Len(hprefixes) :
        LET c == hprefixes[k]
        IN ~Attempted(c) =>
            /\ \A i \in 1..Len(hresults) : hresults[i].city # CityName(c)
            /\ \A i \in 1..Len(weather_aggregates) :
                  (weather_aggregates[i].city_id = c /\ weather_aggregates[i].date = htarget)
                  => weather_aggregates[i].agg = Summary(1, c)
            /\ \A o \in processed_bucket : o.key.city # CityName(c)
            /\ \A i \in 1..Len(hfaults) :
                  hfaults[i].at = CityName(c) =>
                      hfaults[i].fault \in {"list_objects_ClientError", "list_objects_error"}
            /\ hraised.city = CityName(c) => hraised.at = "list_objects"
            /\ (hpc = "loop" /\ hidx = k /\ hraised = NoException) =>
                  ENABLED (hidx' = k + 1 /\ handler_city)

\* The first prefix had no key for the target date, and the run went on to
\* persist the second city and returned 200 with that city's entry only.
C20_Witness ==
    /\ hpc = "done"
    /\ hresponse.statusCode = 200
    /\ Len(hprefixes) = 2
    /\ ~Attempted(hprefixes[1])
    /\ Attempted(hprefixes[2])
    /\ Len(hresponse.body) = 1
    /\ hresponse.body[1].city = CityName(hprefixes[2])
    /\ Persisted(hprefixes[2])

\* The city has raw keys for the target date and no row in weather.cities.
MissingFromDb(c) == Attempted(c) /\ c \notin db_cities

C22_MissingConfigIsFatal ==
    fcfg \in MissingConfig =>
        /\ fjobs = <<>>
        /\ raw_bucket = {}
        /\ fpc \in {"start", "failed"}
        /\ fpc = "failed" =>
              /\ fresponse.statusCode = 500
              /\ fresponse.body = [error |-> InitServicesError(fcfg)]
              /\ fresponse.body.error # ""

\* async_handler has returned 500 for an API secret without a usable key.
C22_Witness ==
    /\ fcfg = "empty_api_key"
    /\ Len(fcities) > 0
    /\ fpc = "failed"
    /\ fresponse.statusCode = 500

\* A listing of the raw bucket (the city prefixes, or one city's keys) failed
\* with a botocore ClientError during this run.
ListingClientError ==
    \E i \in 1..Len(hfaults) :
        \/ hfaults[i].at = "list_folders" /\ hfaults[i].fault = "ClientError"
        \/ hfaults[i].fault = "list_objects_ClientError"

\* C23: a run in which listing the city prefixes or listing a city's keys
\* failed with a store client error ends with a top-level failure, never with
\* a success carrying an empty or shortened result set.
C23_UnreachableStoreIsFatal ==
    (hpc = "done" /\ ListingClientError) => hresponse.statusCode = 500

\* The aggregation of the k-th discovered city has returned or raised.
AggregationSettled(k) ==
    \/ k < hidx
    \/ /\ hraised.city = CityName(hprefixes[k])
       /\ hraised.at \in {"aggregate", "query", "commit", "put_json"}

\* The handler has begun to write city c: it has a result entry, or its commit
\* or its blob write has been reached.
PersistenceStarted(c) ==
    \/ \E i \in 1..Len(hresults) : hresults[i].city = CityName(c)
    \/ \E i \in 1..Len(hfaults) :
          /\ hfaults[i].at = CityName(c)
          /\ hfaults[i].fault \in {"commit_error", "put_json_ClientError", "put_json_error"}

\* C24: no city's persistence starts before the aggregation of every
\* discovered city with data for the date has settled.
C24_StageBarrier ==
    \A k \in 1..Len(hprefixes) :
        PersistenceStarted(hprefixes[k]) =>
            \A m \in 1..Len(hprefixes) :
                Attempted(hprefixes[m]) => AggregationSettled(m)

\* Within one city the summary is computed only once every blob fetch has
\* settled (the gather at weather_utils_async.py line 98).
SummaryAfterEveryFetch ==
    agg_pc \in {"returned", "raised"} => agg_done = 1..Len(agg_files)

\* C25: a weather API call that times out for one city is a failure of that
\* city's job only: the job returns an error entry and writes no blob, the
\* other cities' jobs run to their own results, and async_handler returns 200
\* with all of them.
C25_TimeoutIsJobFailure ==
    \A i \in 1..Len(fjobs) :
        fjobs[i].err = "TimeoutError" =>
            /\ fjobs[i].out = Returned([city |-> fcities[i], error |-> "TimeoutError"])
            /\ fjobs[i].key = None
            /\ fpc \in {"gather", "returned"}
            /\ fpc = "returned" =>
                  /\ fresponse.statusCode = 200
                  /\ Len(fresponse.body) = Len(fcities)
                  /\ fresponse.body[i] = [city |-> fcities[i], error |-> "TimeoutError"]
                  /\ \A k \in 1..Len(fjobs) :
                        /\ fjobs[k].pc = "done"
                        /\ fjobs[k].out.kind = "returned"
                        /\ fresponse.body[k] = fjobs[k].out.value

\* The first city's call timed out, the second city's reading was stored, and
\* the handler returned 200.
C25_Witness ==
    /\ fpc = "returned"
    /\ Len(fjobs) = 2
    /\ fjobs[1].err = "TimeoutError"
    /\ fjobs[2].put = "stored"
    /\ fresponse.statusCode = 200
    /\ "s3_path" \in DOMAIN fresponse.body[2]

\* C26: every result process_city_weather returns names its city and holds
\* exactly one of a non-null s3_path and an error string.
C26_ResultShape ==
    \A i \in 1..Len(fjobs) :
        fjobs[i].out.kind = "returned" =>
            LET r == fjobs[i].out.value
                stored == "s3_path" \in DOMAIN r /\ r.s3_path # None
                failed == "error" \in DOMAIN r
            IN /\ r.city = fcities[i]
               /\ stored \/ failed
               /\ ~(stored /\ failed)

InitSecrets ==
    StoresEmpty /\ PersistOff /\ FetchOff /\ AggOff /\ SyncOff /\ SecretsOn /\ PairOff

SpecSecrets == InitSecrets /\ [][NextSecrets]_vars

\* C27: after a successful get_secret(name), every later awaited get_secret
\* with the same name on the same instance returns the same parsed dict and
\* makes no further get_secret_value call.
C27_SecretCached ==
    \A n, m \in 1..Len(secret_log) :
        (/\ n < m
         /\ secret_log[n].out.kind = "returned"
         /\ secret_log[m].inst = secret_log[n].inst
         /\ secret_log[m].name = secret_log[n].name)
        => /\ secret_log[m].out = secret_log[n].out
           /\ ~secret_log[m].remote

\* The half of the claim that holds: a later call with the same name on the
\* same instance makes no further remote call.
NoSecondRemoteCall ==
    \A n, m \in 1..Len(secret_log) :
        (/\ n < m
         /\ secret_log[m].inst = secret_log[n].inst
         /\ secret_log[m].name = secret_log[n].name)
        => ~secret_log[m].remote

\* C28: one call of get_weather_by_coordinates makes at most 3 attempts; an
\* attempt is followed by another only if it ended in aiohttp.ClientError; the
\* call returns the dict of its first successful attempt, raises the
\* ClientError of the third attempt once three have failed, and raises at once,
\* without retry, on a non-dict JSON response.
C28_BoundedRetry ==
    \A i \in 1..Len(fjobs) :
        LET j == fjobs[i]
            n == Len(j.tries)
        IN /\ n <= 3
           /\ j.attempt = IF j.pc = "weather" THEN n + 1 ELSE n
           /\ \A k \in 1..(n - 1) : j.tries[k] = "ClientError"
           /\ j.pc = "weather" => \A k \in 1..n : j.tries[k] = "ClientError"
           /\ j.pc # "weather" =>
                 /\ n >= 1
                 /\ j.tries[n] = "dict" => j.key # None /\ j.err \notin {"ClientError", "ValueError"}
                 /\ j.tries[n] = "ClientError" => n = 3 /\ j.err = "ClientError" /\ j.key = None
                 /\ j.tries[n] = "nondict" => j.err = "ValueError" /\ j.key = None

\* One call failed twice with ClientError and returned the dict of its third
\* attempt; another raised ClientError after three failures; a non-dict
\* response ended a call at its first attempt.
C28_Witness ==
    /\ Len(fjobs) = 2
    /\ fjobs[1].tries = <<"ClientError", "ClientError", "dict">>
    /\ fjobs[1].key # None
    /\ fjobs[2].tries = <<"ClientError", "ClientError", "ClientError">>
    /\ fjobs[2].err = "ClientError"

C28_WitnessNonDict ==
    \E i \in 1..Len(fjobs) : fjobs[i].tries = <<"nondict">> /\ fjobs[i].err = "ValueError"

\* C29: a save_weather_aggregate call whose lookup finds a row for
\* (city_id, date) issues no add_weather_aggregate call and leaves the rows as
\* they are; a call whose lookup finds none issues add_weather_aggregate once,
\* with the given summary, and an insert that commits appends exactly that row.
\* No step changes or removes a row already stored.
C29_InsertOnlyIfAbsent ==
    [][/\ \A r \in Runs : \A i \in 1..Len(pjobs[r]) :
            LET j == pjobs[r][i]
                k == pjobs'[r][i]
            IN (Len(pjobs'[r]) = Len(pjobs[r])) =>
                /\ k.existing = "row" => k.pc # "add"
                /\ (j.pc = "get" /\ k.existing = "row") =>
                      weather_aggregates' = weather_aggregates
                /\ k.pc = "add" => (k.existing = "none" /\ j.pc \in {"get", "add"})
                /\ (j.pc = "add" /\ k # j) =>
                      /\ k.pc # "add"
                      /\ weather_aggregates' \in
                            {weather_aggregates,
                             Append(weather_aggregates, RowOf(city_tasks[r][i]))}
                /\ (j.pc \notin {"get", "add"}) => k.pc \notin {"get", "add"}
       /\ weather_aggregates' # weather_aggregates =>
            /\ SubSeq(weather_aggregates', 1, Len(weather_aggregates)) = weather_aggregates
            /\ \E r \in Runs : \E i \in 1..Len(pjobs[r]) :
                  /\ pjobs[r][i].pc = "add"
                  /\ pjobs'[r][i].pc # "add"
                  /\ weather_aggregates' =
                        Append(weather_aggregates, RowOf(city_tasks[r][i]))]_vars

\* One run inserted the row of a key; the other run, given another summary for
\* the same key, found the row, made no insert and left the row as it was.
C29_Witness ==
    \E x \in JobIds, y \in JobIds :
        /\ x[1] # y[1] /\ HasJob(x) /\ HasJob(y)
        /\ Key(city_tasks[x[1]][x[2]]) = Key(city_tasks[y[1]][y[2]])
        /\ pjobs[x[1]][x[2]].existing = "none"
        /\ pjobs[y[1]][y[2]].existing = "row"
        /\ pjobs[y[1]][y[2]].pc = "done"
        /\ RowOf(city_tasks[y[1]][y[2]]) # RowOf(city_tasks[x[1]][x[2]])
        /\ RowsFor(weather_aggregates, city_tasks[x[1]][x[2]].city_id,
                   city_tasks[x[1]][x[2]].target_date) = <<RowOf(city_tasks[x[1]][x[2]])>>

InitPair ==
    StoresEmpty /\ PersistOff /\ FetchOff /\ AggOff /\ SyncOff /\ SecretsOff /\ PairOn

SpecPair == InitPair /\ [][NextPair]_vars

\* C30: under every interleaving of concurrently running aggregations, the
\* accumulator lists of a call hold exactly the values of the files of its own
\* day_files processed so far, and the summary it returns (or the exception it
\* raises) is the one computed from its own day_files alone.
C30_NoCrossCityContamination ==
    \A a \in DOMAIN pair_pc :
        /\ pair_pc[a] # "start" =>
              \E ord \in Perms(pair_done[a]) :
                  pair_metrics[a] = AppendAll(EmptyMetrics, pair_files[a], ord)
        /\ pair_pc[a] \in {"returned", "raised"} =>
              \E ord \in Perms(1..Len(pair_files[a])) :
                  pair_result[a] = Summarize(AppendAll(EmptyMetrics, pair_files[a], ord))

\* Two aggregations over different files overlapped: the second ran from start
\* to its summary while the first had one of its two files processed, and the
\* first then returned a different summary.
C30_Witness ==
    /\ DOMAIN pair_pc = Calls
    /\ pair_files[1] = <<Reading(1, 5, 3, 5, 2), Reading(1, 5, 3, 5, 2)>>
    /\ pair_files[2] = <<RainyReading(2, 6, 4, 6, 4, 1)>>
    /\ pair_pc[1] = "gather"
    /\ Cardinality(pair_done[1]) = 1
    /\ pair_pc[2] = "returned"
    /\ pair_result[2].temp_avg = 4
    /\ pair_metrics[1].temp_avg = <<3>>

\* The task hands save_processed_payload an empty agg or an empty day_files.
EmptyInput(t) == DOMAIN t.agg = {} \/ t.day_files = <<>>

\* C31: a job whose agg or day_files is empty never reaches put_json; once
\* save_weather_aggregate has returned, save_processed_payload raises
\* ValueError and process_city_aggregate returns an error entry for the city;
\* no processed blob ever carries an empty agg or an empty file list.
C31_EmptyInputRejected ==
    /\ \A r \in Runs : \A i \in 1..Len(pjobs[r]) :
          LET t == city_tasks[r][i]
              j == pjobs[r][i]
          IN EmptyInput(t) =>
                /\ j.pc # "put"
                /\ j.put = ""
                /\ SaveReturned(j) =>
                      /\ j.err = "ValueError"
                      /\ j.out = Returned([city |-> t.city_name, error |-> "ValueError"])
                /\ j.pc = "done" => j.out.kind = "returned" /\ "error" \in DOMAIN j.out.value
                /\ prun[r] = "returned" => "error" \in DOMAIN presults[r][i]
    /\ \A o \in processed_bucket :
          DOMAIN o.body.aggregates # {} /\ o.body.source_files > 0

\* A job with an empty agg found the row of its key, skipped the insert and was
\* rejected by save_processed_payload; a job without source files inserted its
\* row and was rejected as well.
C31_Witness ==
    \E x \in JobIds, y \in JobIds :
        /\ HasJob(x) /\ HasJob(y)
        /\ DOMAIN city_tasks[x[1]][x[2]].agg = {}
        /\ pjobs[x[1]][x[2]].existing = "row"
        /\ pjobs[x[1]][x[2]].err = "ValueError"
        /\ city_tasks[y[1]][y[2]].day_files = <<>>
        /\ DOMAIN city_tasks[y[1]][y[2]].agg # {}
        /\ pjobs[y[1]][y[2]].existing = "none"
        /\ pjobs[y[1]][y[2]].err = "ValueError"
        /\ prun[x[1]] = "returned"

\* The event carries a "date" that strptime("%Y-%m-%d") rejects.
MalformedDate == hevent # None /\ hevent[1] = 0

\* C32 as stated: with a date in YYYY-MM-DD form the handler processes that
\* date, and in every other case it processes the UTC day before today.
C32_TargetDateOrYesterday ==
    hpc = "done" =>
        IF hevent # None /\ hevent[1] # 0
        THEN hraised.at # "date" /\ htarget = hevent[1]
        ELSE hraised.at # "date" /\ htarget = Today - 1

\* C32 amended: with a date in YYYY-MM-DD form the handler processes that date,
\* without a date it processes the UTC day before today, and with a date in
\* another form the run fails with 500 before anything is listed or written;
\* every prefix listed, every row added or changed, every processed key written
\* and every result entry of the run carries that one target date.
C32_TargetDateSelection ==
    [][/\ hpc' \in {"loop", "done"} =>
            IF hevent # None /\ hevent[1] = 0
            THEN /\ hpc' = "done"
                 /\ hresponse' = Error500("ValueError")
                 /\ hprefixes' = <<>> /\ hresults' = <<>>
                 /\ weather_aggregates' = weather_aggregates
                 /\ processed_bucket' = {}
            ELSE htarget' = IF hevent # None THEN hevent[1] ELSE Today - 1
       /\ \A i \in 1..Len(weather_aggregates') :
            (i > Len(weather_aggregates) \/ weather_aggregates'[i] # weather_aggregates[i])
            => /\ weather_aggregates'[i].date = htarget
               /\ raw_files[weather_aggregates'[i].city_id].date = htarget
       /\ \A o \in processed_bucket' \ processed_bucket :
            /\ o.key.date = htarget
            /\ \E c \in CityIds : o.key.city = CityName(c) /\ raw_files[c].date = htarget
       /\ \A i \in 1..Len(hresults') :
            /\ hresults'[i].date = htarget'
            /\ hresults'[i].processed_file.date = htarget']_vars

\* A run for the date of its event, which is not yesterday, wrote a row and a
\* processed blob for that date.
C32_Witness ==
    /\ hpc = "done"
    /\ hevent = Some(Today)
    /\ htarget = Today
    /\ hresponse.statusCode = 200
    /\ Len(hresults) > 0
    /\ \E i \in 1..Len(weather_aggregates) : weather_aggregates[i].date = Today
    /\ \E o \in processed_bucket : o.key.date = Today

\* A run without a date in its event processed yesterday.
C32_WitnessDefault ==
    /\ hpc = "done"
    /\ hevent = None
    /\ htarget = Today - 1
    /\ Len(hresults) > 0

\* C33: no put of the fetcher stores a raw blob under a key that already holds
\* one.
C33_RawBlobsImmutable ==
    [][\A i \in 1..Len(fjobs) :
          (/\ Len(fjobs') = Len(fjobs)
           /\ fjobs[i].pc = "put"
           /\ fjobs'[i].put = "stored")
          => fjobs[i].key[1] \notin raw_bucket]_vars

\* The job's own add_weather_aggregate committed a row.
Inserted(j) == j.existing = "none" /\ SaveReturned(j)

\* C34: once process_city_aggregate has finished for a city, either the row of
\* (city, date) and the processed blob both exist and the city is reported as
\* success, or the job wrote neither and the city is reported as error.
C34_AllOrNothing ==
    \A r \in Runs : \A i \in 1..Len(pjobs[r]) :
        LET t == city_tasks[r][i]
            j == pjobs[r][i]
        IN (j.pc = "done" /\ j.out.kind = "returned") =>
              IF "error" \in DOMAIN j.out.value
              THEN ~Inserted(j) /\ j.put # "stored"
              ELSE /\ RowsFor(weather_aggregates, t.city_id, t.target_date) # <<>>
                   /\ ProcessedKey(t) \in Keys(processed_bucket)

\* C35: in the synchronous handler a write to weather_aggregates either
\* overwrites every summary field of the one row of (city, date) with the new
\* summary, adding no row, or, when the key has no row, adds exactly that row;
\* after a run that reported a city, whatever the runs before it wrote, the
\* key has one row and it equals that run's summary.
C35_SyncUpsert ==
    [][/\ weather_aggregates' # weather_aggregates =>
            LET c == hprefixes[hidx]
                new == [city_id |-> c, date |-> htarget,
                        agg |-> AggDict(aggregate_city_weather(raw_files[c].files))]
                old == RowsFor(weather_aggregates, c, htarget)
            IN /\ RowsFor(weather_aggregates', c, htarget) = <<new>>
               /\ IF old # <<>>
                  THEN /\ Len(weather_aggregates') = Len(weather_aggregates)
                       /\ \A i \in 1..Len(weather_aggregates) :
                             weather_aggregates'[i] =
                                IF weather_aggregates[i].city_id = c
                                      /\ weather_aggregates[i].date = htarget
                                THEN new ELSE weather_aggregates[i]
                  ELSE weather_aggregates' = Append(weather_aggregates, new)
       /\ \A i \in 1..Len(hresults') :
            \E c \in CityIds :
                /\ hresults'[i].city = CityName(c)
                /\ RowsFor(weather_aggregates', c, htarget') =
                      <<[city_id |-> c, date |-> htarget',
                         agg |-> AggDict(aggregate_city_weather(raw_files'[c].files))]>>]_vars

\* The second run for a date, over raw blobs with another summary than the
\* row of the first run, has left one row, equal to the second run's summary.
C35_Witness ==
    /\ hrun = 2
    /\ hpc = "done"
    /\ hresponse.statusCode = 200
    /\ Len(hresults) = 1
    /\ Len(weather_aggregates) = 1
    /\ \E c \in CityIds :
          /\ hresults[1].city = CityName(c)
          /\ raw_files[c].files = <<RainyReading(2, 6, 4, 6, 4, 1), NotJson>>
          /\ weather_aggregates[1].city_id = c
          /\ weather_aggregates[1].date = Today
          /\ weather_aggregates[1].agg.temp_avg = 4
          /\ weather_aggregates[1].agg.precipitation_sum = 1

\* C36: the list the fetcher's process_all_cities returns has one result per
\* input city, and its i-th result is the result of the i-th city's job,
\* whatever the order in which the jobs completed.
C36_ResultOrder ==
    fpc = "returned" =>
        /\ fresponse.statusCode = 200
        /\ Len(fresponse.body) = Len(fcities)
        /\ \A i \in 1..Len(fcities) :
              /\ fresponse.body[i].city = fcities[i]
              /\ fresponse.body[i] = fjobs[i].out.value

\* The weather call of the second city was answered a second before the one
\* of the first city; the results are in input order.
C36_Witness ==
    /\ fpc = "returned"
    /\ fcities = <<"A", "B">>
    /\ fjobs[1].key = Some(RawKey("A", 1))
    /\ fjobs[2].key = Some(RawKey("B", 0))
    /\ fresponse.body[1].city = "A"
    /\ fresponse.body[2].city = "B"

\* The aggregation handler has ended: it returned, or an exception left it.
HandlerEnded == hpc \in {"done", "crashed"}

\* C37, the part a finite run decides: a run of the fetcher handler or of the
\* aggregation handler that has ended has exactly one terminal outcome,
\* statusCode 200 or statusCode 500, and the aggregation handler's DB session
\* is not left open.
C37_EndsWithOutcome ==
    /\ fpc \in {"returned", "failed"} => fresponse.statusCode \in {200, 500}
    /\ HandlerEnded =>
          /\ hresponse.statusCode \in {200, 500}
          /\ hsession # "open"

SpecFetchLive == SpecFetch /\ WF_vars(NextFetch)

\* Every run of the fetcher handler ends with a response.
FetcherEnds == <>(fpc \in {"returned", "failed"} /\ fresponse.statusCode \in {200, 500})

\* The session the aggregation handler opened is closed when it ends.
SessionClosed == hpc = "done" => hsession = "closed"

====
